---------------------------- MODULE Spec2Model ----------------------------
(***************************************************************************)
(* rust-serial-tool: the Connection Supervisor (SerialTool::run), the      *)
(* loader protocol of mini_push (handshake, size negotiation, chunked      *)
(* transfer), the Bounded-Wait Executor (timeout) and the Duplex Bridge    *)
(* (SerialTool::terminal), as one state machine.                           *)
(*                                                                         *)
(* The main thread is the variable pc.  The monitor thread of timeout is   *)
(* mon, the device-to-console thread of terminal is rd_pc.  The serial     *)
(* device, the console, the image file and the clock are the environment:  *)
(* every read, write and open draws its outcome with \E.                   *)
(***************************************************************************)
EXTENDS Integers, Sequences, FiniteSets, TLC

(***************************************************************************)
(* Bounds of the model.                                                    *)
(***************************************************************************)
MaxAttempts == 2        \* exec attempts of one run of the Supervisor
MaxStream == 4          \* bytes the device delivers during one handshake
MaxRead == 3            \* bytes one read of the handshake returns at most
MaxFullChunks == 2      \* image lengths go up to MaxFullChunks*512 + 511
ConsoleBufLen == 2      \* modelled length of console_buf (256 in the code)

(***************************************************************************)
(* Program constants.                                                      *)
(***************************************************************************)
ChunkSize == 512        \* take(512)
MarkerByte == 3         \* 0x03
MarkerRun == 3          \* count == 3
AckLen == 2             \* let mut received = [0; 2]
ByteO == 79
ByteK == 75

None == 0               \* target_serial: Option::None; a handle is 1..MaxAttempts

\* Bytes that are neither the marker nor part of "OK".
OtherBytes == {65}
HsBytes == {MarkerByte} \cup OtherBytes
AckBytes == {ByteO, ByteK} \cup OtherBytes
ConsoleBytes == {MarkerByte} \cup OtherBytes
ImageLens == {k * ChunkSize + r : k \in 0..MaxFullChunks, r \in {0, 1, ChunkSize - 1}}

\* What the operating system answers to one read of the port.
OsOutcomes == {"data", "timedout", "removed", "interrupted", "other"}

SeqsUpTo(S, n) == UNION {[1..k -> S] : k \in 0..n}
NonEmptySeqs(S, n) == UNION {[1..k -> S] : k \in 1..n}
Min(a, b) == IF a < b THEN a ELSE b

\* The bytes a read with outcome o can deliver into a buffer with room for n.
ReadBytes(o, S, n) == IF o = "data" THEN NonEmptySeqs(S, n) ELSE {<<>>}

(***************************************************************************)
(* ErrorKind and run's classification (lib.rs 133-135).                    *)
(***************************************************************************)
ErrorKinds == {"ConnectionError", "ProtocolError", "TimeoutError",
               "NoneError", "SerialError", "IoError"}

RetryableWithIo == {"ConnectionError", "ProtocolError", "TimeoutError", "IoError"}
RetryableNoTimeout == {"ConnectionError", "ProtocolError"}
Retryable == {"ConnectionError", "ProtocolError", "TimeoutError"}

(***************************************************************************)
(* ReadSerial::read_serial (lib.rs 205-215): a timed-out read is Ok(0),    *)
(* os error 22 / 1167 is ConnectionError, every other error is IoError     *)
(* (IoErrorInterrupted is IoError(e) with e.kind() == Interrupted).        *)
(***************************************************************************)
read_serial(o) ==
    CASE o = "data" -> "Ok"
      [] o = "timedout" -> "Ok"
      [] o = "removed" -> "ConnectionError"
      [] o = "interrupted" -> "IoErrorInterrupted"
      [] OTHER -> "IoError"

VARIABLES
    mode,           \* "push" (mini_push) or "term" (mini_term)
    pc,             \* position of the main thread
    attempt,        \* number of exec calls started
    result,         \* what the last exec returned: "none", "Ok" or an ErrorKind
    cause,          \* the operation that produced result
    target_serial,  \* self.target_serial: None or the handle of an attempt
    raw,            \* console raw mode is enabled
    present,        \* the device is present (serial_connected would say true)
    seenPresent,    \* serial_connected has returned true since the last error
    events,         \* protocol milestones of the current attempt, in order
    flag,           \* timeout: the AtomicBool, true = live
    mon,            \* timeout: position of the monitor thread
    elapsed,        \* timeout: the window (sec) has elapsed
    f_ret,          \* timeout: how the wrapped closure returned
    inTime,         \* timeout: the closure returned before the window elapsed
    count,          \* handshake: run-counter of marker bytes
    received,       \* handshake: received[..n] of the latest read
    hs_stream,      \* handshake: every byte read from the device, in order
    hs_pos,         \* handshake: number of bytes of hs_stream the loop has scanned
    binary_size,    \* load_binary: length of the image
    fpos,           \* position of the image file's cursor
    frame,          \* send_size: the 4 bytes written
    ack,            \* send_size: bytes read_serial_exact has received
    progress,       \* send_binary: progress
    sent,           \* send_binary: chunks written, each <<offset, length>>
    has_error,      \* terminal: the AtomicU8, 0 running, 1 connect error, 2 ctrl c
    rd_pc,          \* terminal: position of the device-to-console thread
    console_buf,    \* terminal: console_buf
    sawInterrupt,   \* terminal: a console read of this run contained 0x03
    orphans,        \* device-to-console threads of earlier runs still looping
    turns,          \* read_serial_exact: parity of its loop turns that received nothing
    size64,         \* the image length as a u64 beyond 31 bits (SizeSpec)
    progress64      \* send_binary's progress as a u64 beyond 31 bits (SizeSpec)

supVars == <<mode, pc, attempt, result, cause, target_serial, raw, present,
             seenPresent, events>>
toVars == <<flag, mon, elapsed, f_ret, inTime>>
hsVars == <<count, received, hs_stream, hs_pos>>
pushVars == <<binary_size, fpos, frame, ack, progress, sent>>
termVars == <<has_error, rd_pc, console_buf, sawInterrupt, orphans>>
wideVars == <<size64, progress64>>
vars == <<supVars, toVars, hsVars, pushVars, termVars, turns, wideVars>>

ZeroBuf == [i \in 1..ConsoleBufLen |-> 0]

Init ==
    /\ mode \in {"push", "term"}
    /\ pc = "exec"
    /\ attempt = 0
    /\ result = "none"
    /\ cause = "none"
    /\ target_serial = None
    /\ raw = FALSE
    /\ present \in BOOLEAN
    /\ seenPresent = FALSE
    /\ events = <<>>
    /\ flag = TRUE
    /\ mon = "idle"
    /\ elapsed = FALSE
    /\ f_ret = "none"
    /\ inTime = FALSE
    /\ count = 0
    /\ received = <<>>
    /\ hs_stream = <<>>
    /\ hs_pos = 0
    /\ binary_size = 0
    /\ fpos = 0
    /\ frame = <<>>
    /\ ack = <<>>
    /\ progress = 0
    /\ sent = <<>>
    /\ has_error = 0
    /\ rd_pc = "none"
    /\ console_buf = ZeroBuf
    /\ sawInterrupt = FALSE
    /\ orphans = 0
    /\ turns = 0
    /\ size64 = <<0, 0, 0>>
    /\ progress64 = <<0, 0, 0>>

(***************************************************************************)
(* The environment: the device is plugged in or removed at any time.       *)
(***************************************************************************)
DeviceToggle ==
    /\ pc \notin {"done", "exited"}
    /\ present' = ~present
    /\ UNCHANGED <<mode, pc, attempt, result, cause, target_serial, raw,
                   seenPresent, events>>
    /\ UNCHANGED <<toVars, hsVars, pushVars, termVars>>
    /\ UNCHANGED <<turns, wideVars>>

(***************************************************************************)
(* serial_connected (lib.rs 25-38): whether the device exists right now.   *)
(***************************************************************************)
serial_connected_always == TRUE
serial_connected == present

(***************************************************************************)
(* exec returns r, produced by operation c, to the loop of run.            *)
(***************************************************************************)
Return(r, c) ==
    /\ result' = r
    /\ cause' = c
    /\ pc' = "classify"

(***************************************************************************)
(* run: the loop calls exec (lib.rs 130-131).  exec starts with            *)
(* open_serial, whose first step is wait_for_serial.  Everything local to  *)
(* the previous exec is gone.                                              *)
(***************************************************************************)
ExecStart ==
    /\ pc = "exec"
    /\ attempt < MaxAttempts
    /\ attempt' = attempt + 1
    /\ pc' = "wfs"
    /\ result' = "none"
    /\ cause' = "none"
    /\ events' = <<>>
    /\ f_ret' = "none"
    /\ inTime' = FALSE
    /\ binary_size' = 0
    /\ fpos' = 0
    /\ frame' = <<>>
    /\ ack' = <<>>
    /\ progress' = 0
    /\ sent' = <<>>
    /\ UNCHANGED <<mode, target_serial, raw, present, seenPresent>>
    /\ UNCHANGED <<flag, mon, elapsed>>
    /\ UNCHANGED <<hsVars, termVars>>
    /\ UNCHANGED <<turns, wideVars>>

(***************************************************************************)
(* wait_for_serial (lib.rs 40-45): returns once serial_connected is true,  *)
(* polls (sleep(1)) while it is false.                                     *)
(***************************************************************************)
wait_for_serial ==
    /\ pc = "wfs"
    /\ IF serial_connected
         THEN /\ pc' = "open"
              /\ seenPresent' = present
         ELSE /\ pc' = "wfs"
              /\ UNCHANGED seenPresent
    /\ UNCHANGED <<mode, attempt, result, cause, target_serial, raw, present, events>>
    /\ UNCHANGED <<toVars, hsVars, pushVars, termVars>>
    /\ UNCHANGED <<turns, wideVars>>

(***************************************************************************)
(* open_serial (lib.rs 49-60): open_native succeeds and set_target_serial  *)
(* stores the new handle (the assignment drops the handle held until       *)
(* then), or it fails and the process exits.                               *)
(***************************************************************************)
set_target_serial_dropped(h) == UNCHANGED target_serial
set_target_serial(h) == target_serial' = h

open_serial ==
    /\ pc = "open"
    /\ \E opened \in BOOLEAN :
         IF opened
           THEN /\ set_target_serial(attempt)
                /\ pc' = IF mode = "push" THEN "hs_begin" ELSE "term_begin"
           ELSE /\ pc' = "exited"
                /\ UNCHANGED target_serial
    /\ UNCHANGED <<mode, attempt, result, cause, raw, present, seenPresent, events>>
    /\ UNCHANGED <<toVars, hsVars, pushVars, termVars>>
    /\ UNCHANGED <<turns, wideVars>>

(***************************************************************************)
(* connection_reset (lib.rs 109-112): self.target_serial() is              *)
(* self.target_serial.as_mut(), a temporary Option<&mut SerialPort>;       *)
(* take() empties that temporary and leaves the field as it was.  Raw      *)
(* mode is disabled.                                                       *)
(***************************************************************************)
connection_reset_keeps_raw ==
    /\ UNCHANGED target_serial
    /\ UNCHANGED raw

connection_reset ==
    /\ UNCHANGED target_serial
    /\ raw' = FALSE

(***************************************************************************)
(* run (lib.rs 131-144): Ok breaks, a retryable error calls                *)
(* handle_reconnect and loops, any other error calls handle_unexpected     *)
(* and breaks.  mini_push overrides handle_reconnect and polls for the     *)
(* device after the reset (mini_push.rs 107-115).                          *)
(***************************************************************************)
Classify ==
    /\ pc = "classify"
    /\ IF result = "Ok"
         THEN /\ pc' = "final"
              /\ UNCHANGED <<target_serial, raw, seenPresent>>
         ELSE IF result \in Retryable
           THEN /\ connection_reset
                /\ seenPresent' = FALSE
                /\ pc' = IF mode = "push" THEN "rc_poll" ELSE "exec"
           ELSE /\ connection_reset
                /\ UNCHANGED seenPresent
                /\ pc' = "final"
    /\ UNCHANGED <<mode, attempt, result, cause, present, events>>
    /\ UNCHANGED <<toVars, hsVars, pushVars, termVars>>
    /\ UNCHANGED <<turns, wideVars>>

\* mini_push.rs 114: while !self.serial_connected() { sleep(1) }
handle_reconnect_poll ==
    /\ pc = "rc_poll"
    /\ IF serial_connected
         THEN /\ pc' = "exec"
              /\ seenPresent' = present
         ELSE /\ pc' = "rc_poll"
              /\ UNCHANGED seenPresent
    /\ UNCHANGED <<mode, attempt, result, cause, target_serial, raw, present, events>>
    /\ UNCHANGED <<toVars, hsVars, pushVars, termVars>>
    /\ UNCHANGED <<turns, wideVars>>

\* lib.rs 145-146: the connection_reset after the loop, then "Bye".
Final ==
    /\ pc = "final"
    /\ connection_reset
    /\ pc' = "done"
    /\ UNCHANGED <<mode, attempt, result, cause, present, seenPresent, events>>
    /\ UNCHANGED <<toVars, hsVars, pushVars, termVars>>
    /\ UNCHANGED <<turns, wideVars>>

(***************************************************************************)
(* timeout (lib.rs 169-197).  The caller creates the flag, spawns the      *)
(* monitor and runs the closure; when the closure returns Ok it calls      *)
(* notify_one and then loads the flag.  An Err of the closure leaves       *)
(* through the ? of line 192, without notify_one and without the load.     *)
(* The monitor locks, waits on the condition variable, and stores false    *)
(* as soon as wait_timeout returns: because the window elapsed, because    *)
(* it was notified, or spuriously.  Once timeout has returned nobody reads *)
(* the flag again, so the monitor is dropped from the state (TimeoutExit). *)
(***************************************************************************)
TimeoutExit ==
    /\ mon' = "idle"
    /\ flag' = TRUE
    /\ elapsed' = FALSE

\* The clock: the window of the running timeout call elapses.
Tick ==
    /\ pc \in {"hs_read", "hs_check", "to_notify", "to_load"}
    /\ ~elapsed
    /\ elapsed' = TRUE
    /\ UNCHANGED <<flag, mon, f_ret, inTime>>
    /\ UNCHANGED <<supVars, hsVars, pushVars, termVars>>
    /\ UNCHANGED <<turns, wideVars>>

\* lib.rs 181-183: lock.lock(), then cvar.wait_timeout starts waiting.
mon_wait ==
    /\ mon = "spawned"
    /\ mon' = "waiting"
    /\ UNCHANGED <<flag, elapsed, f_ret, inTime>>
    /\ UNCHANGED <<supVars, hsVars, pushVars, termVars>>
    /\ UNCHANGED <<turns, wideVars>>

\* lib.rs 183: wait_timeout returns because sec seconds have passed.
mon_timeout ==
    /\ mon = "waiting"
    /\ elapsed
    /\ mon' = "woken"
    /\ UNCHANGED <<flag, elapsed, f_ret, inTime>>
    /\ UNCHANGED <<supVars, hsVars, pushVars, termVars>>
    /\ UNCHANGED <<turns, wideVars>>

\* lib.rs 183: wait_timeout returns spuriously (Condvar allows it).
mon_spurious ==
    /\ mon = "waiting"
    /\ mon' = "woken"
    /\ UNCHANGED <<flag, elapsed, f_ret, inTime>>
    /\ UNCHANGED <<supVars, hsVars, pushVars, termVars>>
    /\ UNCHANGED <<turns, wideVars>>

\* lib.rs 186: flag_clone.store(false), whatever woke the monitor.
mon_store ==
    /\ mon = "woken"
    /\ flag' = FALSE
    /\ mon' = "done"
    /\ UNCHANGED <<elapsed, f_ret, inTime>>
    /\ UNCHANGED <<supVars, hsVars, pushVars, termVars>>
    /\ UNCHANGED <<turns, wideVars>>

\* lib.rs 193: cvar.notify_one() wakes the monitor if it is waiting.
timeout_notify ==
    /\ pc = "to_notify"
    /\ mon' = IF mon = "waiting" THEN "woken" ELSE mon
    /\ pc' = "to_load"
    /\ UNCHANGED <<flag, elapsed, f_ret, inTime>>
    /\ UNCHANGED <<mode, attempt, result, cause, target_serial, raw, present,
                   seenPresent, events>>
    /\ UNCHANGED <<hsVars, pushVars, termVars>>
    /\ UNCHANGED <<turns, wideVars>>

(***************************************************************************)
(* lib.rs 196: if flag.load() { Ok } else { Err(TimeoutError) }.  The      *)
(* result is the result of wait_for_binary_request; exec goes on to        *)
(* load_binary on Ok (mini_push.rs 119-121).                               *)
(***************************************************************************)
timeout_result_ok(fl) == "Ok"
timeout_result(fl) == IF fl THEN "Ok" ELSE "TimeoutError"

timeout_load ==
    /\ pc = "to_load"
    /\ IF timeout_result(flag) = "Ok"
         THEN /\ pc' = "load_binary"
              /\ UNCHANGED <<result, cause>>
         ELSE Return(timeout_result(flag), "timeout")
    /\ TimeoutExit
    /\ count' = 0
    /\ received' = <<>>
    /\ hs_stream' = <<>>
    /\ hs_pos' = 0
    /\ UNCHANGED <<f_ret, inTime>>
    /\ UNCHANGED <<mode, attempt, target_serial, raw, present, seenPresent, events>>
    /\ UNCHANGED <<pushVars, termVars>>
    /\ UNCHANGED <<turns, wideVars>>

(***************************************************************************)
(* wait_for_binary_request (mini_push.rs 23-50).                           *)
(***************************************************************************)
\* One byte of the for loop (mini_push.rs 34-42).
ScanByteNoReset(c, cnt) == IF c = MarkerByte THEN cnt + 1 ELSE cnt
ScanByte(c, cnt) == IF c = MarkerByte THEN cnt + 1 ELSE 0

\* The for loop over received[..n], from index i on: the counter after it,
\* whether it returned Ok at count == 3, and how many bytes it looked at.
RECURSIVE Scan(_, _, _)
Scan(buf, cnt, i) ==
    IF i > Len(buf)
      THEN [count |-> cnt, matched |-> FALSE, used |-> Len(buf)]
      ELSE LET c2 == ScanByte(buf[i], cnt)
           IN  IF c2 = MarkerRun
                 THEN [count |-> c2, matched |-> TRUE, used |-> i]
                 ELSE Scan(buf, c2, i + 1)

\* mini_push.rs 25 and 49, lib.rs 173-189: the handle is taken, timeout
\* creates the flag and spawns the monitor, the closure starts.
wait_for_binary_request ==
    /\ pc = "hs_begin"
    /\ IF target_serial = None
         THEN /\ Return("NoneError", "handle")
              /\ UNCHANGED <<flag, mon, elapsed>>
         ELSE /\ pc' = "hs_read"
              /\ flag' = TRUE
              /\ mon' = "spawned"
              /\ elapsed' = FALSE
              /\ UNCHANGED <<result, cause>>
    /\ count' = 0
    /\ received' = <<>>
    /\ hs_stream' = <<>>
    /\ hs_pos' = 0
    /\ UNCHANGED <<f_ret, inTime>>
    /\ UNCHANGED <<mode, attempt, target_serial, raw, present, seenPresent, events>>
    /\ UNCHANGED <<pushVars, termVars>>
    /\ UNCHANGED <<turns, wideVars>>

\* mini_push.rs 30 and 44: read_serial(&mut received), any error mapped to
\* ConnectionError and returned by the closure, hence by timeout (lib.rs 192).
hs_read ==
    /\ pc = "hs_read"
    /\ \E o \in OsOutcomes :
       \E bytes \in ReadBytes(o, HsBytes, Min(MaxRead, MaxStream - Len(hs_stream))) :
         IF read_serial(o) = "Ok"
           THEN /\ received' = bytes
                /\ hs_stream' = hs_stream \o bytes
                /\ pc' = "hs_check"
                /\ UNCHANGED <<result, cause, flag, mon, elapsed, f_ret, inTime,
                               count, hs_pos>>
           ELSE /\ Return("ConnectionError", "hs_read")
                /\ f_ret' = "err"
                /\ inTime' = ~elapsed
                /\ TimeoutExit
                /\ count' = 0
                /\ received' = <<>>
                /\ hs_stream' = <<>>
                /\ hs_pos' = 0
    /\ UNCHANGED <<mode, attempt, target_serial, raw, present, seenPresent, events>>
    /\ UNCHANGED <<pushVars, termVars>>
    /\ UNCHANGED <<turns, wideVars>>

\* mini_push.rs 32-43 and 46: the while loads the flag; if it is live the
\* for loop scans received[..n] and returns Ok at count == 3, else the
\* closure goes on to the next read; if it is not, the closure returns Ok.
hs_check ==
    /\ pc = "hs_check"
    /\ IF flag
         THEN LET s == Scan(received, count, 1)
              IN  /\ count' = s.count
                  /\ hs_pos' = hs_pos + s.used
                  /\ IF s.matched
                       THEN /\ f_ret' = "match"
                            /\ inTime' = ~elapsed
                            /\ events' = Append(events, "hs")
                            /\ pc' = "to_notify"
                       ELSE /\ pc' = "hs_read"
                            /\ UNCHANGED <<f_ret, inTime, events>>
         ELSE /\ f_ret' = "flagdown"
              /\ inTime' = ~elapsed
              /\ pc' = "to_notify"
              /\ UNCHANGED <<count, hs_pos, events>>
    /\ UNCHANGED <<received, hs_stream>>
    /\ UNCHANGED <<flag, mon, elapsed>>
    /\ UNCHANGED <<mode, attempt, result, cause, target_serial, raw, present,
                   seenPresent>>
    /\ UNCHANGED <<pushVars, termVars>>
    /\ UNCHANGED <<turns, wideVars>>

(***************************************************************************)
(* load_binary (mini_push.rs 52-57): open the image and take its length    *)
(* from the metadata; either can fail with an io::Error, which ? turns     *)
(* into IoError (lib.rs 247).  The image is whatever file is there now.    *)
(***************************************************************************)
load_binary ==
    /\ pc = "load_binary"
    /\ \E ok \in BOOLEAN :
         IF ok
           THEN /\ \E s \in ImageLens : binary_size' = s
                /\ fpos' = 0
                /\ pc' = "ss_begin"
                /\ UNCHANGED <<result, cause>>
           ELSE /\ Return("IoError", "file_open")
                /\ UNCHANGED <<binary_size, fpos>>
    /\ UNCHANGED <<frame, ack, progress, sent>>
    /\ UNCHANGED <<mode, attempt, target_serial, raw, present, seenPresent, events>>
    /\ UNCHANGED <<toVars, hsVars, termVars>>
    /\ UNCHANGED <<turns, wideVars>>

(***************************************************************************)
(* send_size (mini_push.rs 58-66).                                         *)
(***************************************************************************)
\* binary_size is a u64 (mini_push.rs 54).  A u64 is written as three limbs
\* <<l0, l1, h>>: bits 0-15, bits 16-31 and bits 32-63, so that lengths of
\* 2^32 and more can be told from their low 32 bits.
Limb == 256 * 256

U64(n) == <<n % Limb, n \div Limb, 0>>

\* binary_size as u32: the low 32 bits, the rest is dropped.
as_u16(v) == <<v[1], 0>>
as_u32(v) == <<v[1], v[2]>>

\* u32::to_le_bytes: the four bytes, lowest first.
to_be_bytes(w) == <<w[2] \div 256, w[2] % 256, w[1] \div 256, w[1] % 256>>
to_le_bytes(w) == <<w[1] % 256, w[1] \div 256, w[2] % 256, w[2] \div 256>>

\* mini_push.rs 64: .map_err(|_| ErrorKind::ProtocolError)
AckReadErrPass(e) == e
AckReadErr(e) == "ProtocolError"

\* mini_push.rs 65: received != "OK".as_bytes()
AckOkFirstByte(r) == r[1] = ByteO
AckOk(r) == r = <<ByteO, ByteK>>

\* mini_push.rs 59-63: the handle, then write_all of the size frame.
send_size ==
    /\ pc = "ss_begin"
    /\ IF target_serial = None
         THEN /\ Return("NoneError", "handle")
              /\ UNCHANGED <<frame, events>>
         ELSE \E ok \in BOOLEAN :
                IF ok
                  THEN /\ frame' = to_le_bytes(as_u32(U64(binary_size)))
                       /\ events' = Append(events, "size")
                       /\ pc' = "ss_read"
                       /\ UNCHANGED <<result, cause>>
                  ELSE /\ Return("IoError", "frame_write")
                       /\ UNCHANGED <<frame, events>>
    /\ ack' = <<>>
    /\ UNCHANGED <<binary_size, fpos, progress, sent>>
    /\ UNCHANGED <<mode, attempt, target_serial, raw, present, seenPresent>>
    /\ UNCHANGED <<toVars, hsVars, termVars>>
    /\ UNCHANGED <<turns, wideVars>>

\* read_serial_exact (lib.rs 217-229), one turn of its while loop: Ok(n)
\* advances the buffer, IoError(Interrupted) is retried, any other error is
\* returned, and send_size maps it (mini_push.rs 64).  The loop ends when
\* the two bytes are there; a turn that received nothing (a timed-out read,
\* Ok(0), or an interrupted one) goes round again, which turns records.
read_serial_exact ==
    /\ pc = "ss_read"
    /\ \E o \in OsOutcomes :
       \E bytes \in ReadBytes(o, AckBytes, AckLen - Len(ack)) :
         LET r == read_serial(o)
         IN  IF r = "Ok"
               THEN /\ ack' = ack \o bytes
                    /\ pc' = IF Len(ack') = AckLen THEN "ss_check" ELSE "ss_read"
                    /\ events' = IF ack' = <<ByteO, ByteK>>
                                   THEN Append(events, "ack") ELSE events
                    /\ turns' = IF bytes = <<>> THEN 1 - turns ELSE 0
                    /\ UNCHANGED <<result, cause>>
               ELSE IF r = "IoErrorInterrupted"
                 THEN /\ pc' = "ss_read"
                      /\ turns' = 1 - turns
                      /\ UNCHANGED <<ack, events, result, cause>>
                 ELSE /\ Return(AckReadErr(r), "ack_read")
                      /\ turns' = 0
                      /\ UNCHANGED <<ack, events>>
    /\ UNCHANGED <<binary_size, fpos, frame, progress, sent>>
    /\ UNCHANGED <<mode, attempt, target_serial, raw, present, seenPresent>>
    /\ UNCHANGED <<toVars, hsVars, termVars>>
    /\ UNCHANGED wideVars

\* mini_push.rs 65, then exec goes on to send_binary (mini_push.rs 122-123).
send_size_check ==
    /\ pc = "ss_check"
    /\ IF AckOk(ack)
         THEN /\ pc' = "sb_begin"
              /\ UNCHANGED <<result, cause>>
         ELSE Return("ProtocolError", "ack_mismatch")
    /\ UNCHANGED <<mode, attempt, target_serial, raw, present, seenPresent, events>>
    /\ UNCHANGED <<toVars, hsVars, pushVars, termVars>>
    /\ UNCHANGED <<turns, wideVars>>

(***************************************************************************)
(* send_binary (mini_push.rs 69-87).                                       *)
(***************************************************************************)
\* mini_push.rs 79: take(512).read_to_end reads 512 bytes or what is left.
ChunkLenFixed(left) == ChunkSize
ChunkLen(left) == Min(ChunkSize, left)

\* mini_push.rs 71-75: the progress bar, the handle, progress = 0.
send_binary ==
    /\ pc = "sb_begin"
    /\ IF target_serial = None
         THEN Return("NoneError", "handle")
         ELSE /\ pc' = "sb_loop"
              /\ UNCHANGED <<result, cause>>
    /\ progress' = 0
    /\ sent' = <<>>
    /\ UNCHANGED <<binary_size, fpos, frame, ack>>
    /\ UNCHANGED <<mode, attempt, target_serial, raw, present, seenPresent, events>>
    /\ UNCHANGED <<toVars, hsVars, termVars>>
    /\ UNCHANGED <<turns, wideVars>>

\* mini_push.rs 77-82, one turn of the while loop: read a chunk, write it,
\* add its length to progress.  A failed read or write leaves through ?,
\* which turns the io::Error into IoError (lib.rs 247).
send_chunk ==
    /\ pc = "sb_loop"
    /\ progress < binary_size
    /\ \E rd_ok \in BOOLEAN, wr_ok \in BOOLEAN :
         LET n == ChunkLen(binary_size - fpos)
         IN  IF ~rd_ok
               THEN /\ Return("IoError", "chunk_read")
                    /\ UNCHANGED <<fpos, progress, sent, events>>
               ELSE IF ~wr_ok
                 THEN /\ Return("IoError", "chunk_write")
                      /\ fpos' = fpos + n
                      /\ UNCHANGED <<progress, sent, events>>
                 ELSE /\ sent' = Append(sent, <<fpos, n>>)
                      /\ fpos' = fpos + n
                      /\ progress' = progress + n
                      /\ events' = IF sent = <<>>
                                     THEN Append(events, "chunk") ELSE events
                      /\ pc' = "sb_loop"
                      /\ UNCHANGED <<result, cause>>
    /\ UNCHANGED <<binary_size, frame, ack>>
    /\ UNCHANGED <<mode, attempt, target_serial, raw, present, seenPresent>>
    /\ UNCHANGED <<toVars, hsVars, termVars>>
    /\ UNCHANGED <<turns, wideVars>>

\* mini_push.rs 77 and 83-85: the loop ends, pb.finish(), "send finish!",
\* Ok; exec goes on to terminal (mini_push.rs 124).
send_finish ==
    /\ pc = "sb_loop"
    /\ ~(progress < binary_size)
    /\ events' = Append(events, "done")
    /\ pc' = "term_begin"
    /\ UNCHANGED <<mode, attempt, result, cause, target_serial, raw, present,
                   seenPresent>>
    /\ UNCHANGED <<toVars, hsVars, pushVars, termVars>>
    /\ UNCHANGED <<turns, wideVars>>

(***************************************************************************)
(* terminal (lib.rs 63-107).                                               *)
(***************************************************************************)
\* console_buf after a read of bytes into its front.
Overwrite(buf, bytes) ==
    [i \in 1..Len(buf) |-> IF i <= Len(bytes) THEN bytes[i] ELSE buf[i]]

Contains(buf, b) == \E i \in 1..Len(buf) : buf[i] = b

\* terminal returns while its device-to-console thread may still be in its
\* loop: the thread is not joined.  With the flag at 0 it keeps looping
\* (one more orphan); with the flag at 1 or 2 it ends at its next check.
Detach(flagAtReturn) ==
    /\ orphans' = IF rd_pc # "done" /\ flagAtReturn = 0 THEN orphans + 1 ELSE orphans
    /\ rd_pc' = "none"

\* lib.rs 64-74: the handle, try_clone_native (a serialport::Error becomes
\* SerialError, lib.rs 248), raw mode on, the flag at 0, the thread spawned.
\* The locals of the loader steps are gone by now.
terminal ==
    /\ pc = "term_begin"
    /\ IF target_serial = None
         THEN /\ Return("NoneError", "handle")
              /\ UNCHANGED <<raw, events, has_error, rd_pc, sawInterrupt>>
         ELSE \E cloned \in BOOLEAN :
                IF cloned
                  THEN /\ raw' = TRUE
                       /\ has_error' = 0
                       /\ rd_pc' = "check"
                       /\ sawInterrupt' = FALSE
                       /\ events' = Append(events, "bridge")
                       /\ pc' = "t_check"
                       /\ UNCHANGED <<result, cause>>
                  ELSE /\ Return("SerialError", "clone")
                       /\ UNCHANGED <<raw, events, has_error, rd_pc, sawInterrupt>>
    /\ console_buf' = ZeroBuf
    /\ binary_size' = 0
    /\ fpos' = 0
    /\ frame' = <<>>
    /\ ack' = <<>>
    /\ progress' = 0
    /\ sent' = <<>>
    /\ UNCHANGED <<mode, attempt, target_serial, present, seenPresent, orphans>>
    /\ UNCHANGED <<toVars, hsVars>>
    /\ UNCHANGED <<turns, wideVars>>

\* lib.rs 98: while is_ok(&has_error).
term_check ==
    /\ pc = "t_check"
    /\ pc' = IF has_error = 0 THEN "t_read" ELSE "t_result"
    /\ UNCHANGED <<mode, attempt, result, cause, target_serial, raw, present,
                   seenPresent, events>>
    /\ UNCHANGED <<toVars, hsVars, pushVars, termVars>>
    /\ UNCHANGED <<turns, wideVars>>

\* lib.rs 106: the flag is loaded again; ConnectionError if it is 1, Ok
\* otherwise.
term_result ==
    /\ pc = "t_result"
    /\ Return(IF has_error = 1 THEN "ConnectionError" ELSE "Ok", "flag")
    /\ Detach(has_error)
    /\ UNCHANGED <<has_error, console_buf, sawInterrupt>>
    /\ UNCHANGED <<mode, attempt, target_serial, raw, present, seenPresent, events>>
    /\ UNCHANGED <<toVars, hsVars, pushVars>>
    /\ UNCHANGED <<turns, wideVars>>

\* lib.rs 99-101: stdin().read into console_buf (an io::Error leaves
\* through ? as IoError); then 2 is stored if console_buf contains 0x03.
term_read ==
    /\ pc = "t_read"
    /\ \E ok \in BOOLEAN :
       \E bytes \in SeqsUpTo(ConsoleBytes, ConsoleBufLen) :
         IF ok
           THEN /\ console_buf' = Overwrite(console_buf, bytes)
                /\ has_error' = IF Contains(console_buf', MarkerByte) THEN 2 ELSE has_error
                /\ sawInterrupt' = (sawInterrupt \/ Contains(bytes, MarkerByte))
                /\ pc' = "t_write"
                /\ UNCHANGED <<result, cause, rd_pc, orphans>>
           ELSE /\ Return("IoError", "stdin_read")
                /\ Detach(has_error)
                /\ UNCHANGED <<console_buf, has_error, sawInterrupt>>
    /\ UNCHANGED <<mode, attempt, target_serial, raw, present, seenPresent, events>>
    /\ UNCHANGED <<toVars, hsVars, pushVars>>
    /\ UNCHANGED <<turns, wideVars>>

\* lib.rs 103: port.write_all(&console_buf[..len]), a failure mapped to
\* ConnectionError and returned through ?.
term_write ==
    /\ pc = "t_write"
    /\ \E ok \in BOOLEAN :
         IF ok
           THEN /\ pc' = "t_check"
                /\ UNCHANGED <<result, cause, rd_pc, orphans>>
           ELSE /\ Return("ConnectionError", "link_write")
                /\ Detach(has_error)
    /\ UNCHANGED <<has_error, console_buf, sawInterrupt>>
    /\ UNCHANGED <<mode, attempt, target_serial, raw, present, seenPresent, events>>
    /\ UNCHANGED <<toVars, hsVars, pushVars>>
    /\ UNCHANGED <<turns, wideVars>>

\* lib.rs 76: the spawned thread's while is_ok(&has_error_clone).
reader_check ==
    /\ rd_pc = "check"
    /\ rd_pc' = IF has_error = 0 THEN "read" ELSE "done"
    /\ UNCHANGED <<has_error, console_buf, sawInterrupt, orphans>>
    /\ UNCHANGED <<supVars, toVars, hsVars, pushVars>>
    /\ UNCHANGED <<turns, wideVars>>

\* lib.rs 77-92: read_serial on the cloned port; Ok prints and loops, any
\* Err stores 1 and breaks.
reader_read ==
    /\ rd_pc = "read"
    /\ \E o \in OsOutcomes :
         IF read_serial(o) = "Ok"
           THEN /\ rd_pc' = "check"
                /\ UNCHANGED has_error
           ELSE /\ has_error' = 1
                /\ rd_pc' = "done"
    /\ UNCHANGED <<console_buf, sawInterrupt, orphans>>
    /\ UNCHANGED <<supVars, toVars, hsVars, pushVars>>
    /\ UNCHANGED <<turns, wideVars>>

\* lib.rs 87-90 in a thread of an earlier run: its read fails and it breaks.
orphan_stop ==
    /\ orphans > 0
    /\ orphans' = orphans - 1
    /\ UNCHANGED <<has_error, rd_pc, console_buf, sawInterrupt>>
    /\ UNCHANGED <<supVars, toVars, hsVars, pushVars>>
    /\ UNCHANGED <<turns, wideVars>>

Next ==
    \/ DeviceToggle
    \/ ExecStart
    \/ wait_for_serial
    \/ open_serial
    \/ Classify
    \/ handle_reconnect_poll
    \/ Final
    \/ Tick
    \/ mon_wait
    \/ mon_timeout
    \/ mon_spurious
    \/ mon_store
    \/ timeout_notify
    \/ timeout_load
    \/ wait_for_binary_request
    \/ hs_read
    \/ hs_check
    \/ load_binary
    \/ send_size
    \/ read_serial_exact
    \/ send_size_check
    \/ send_binary
    \/ send_chunk
    \/ send_finish
    \/ terminal
    \/ term_check
    \/ term_result
    \/ term_read
    \/ term_write
    \/ reader_check
    \/ reader_read
    \/ orphan_stop

Spec == Init /\ [][Next]_vars

(***************************************************************************)
(* Scheduling.  The main thread and the monitor thread of timeout (lib.rs  *)
(* 180) are threads of the operating system: each keeps taking its next    *)
(* step while it has one.  A read of the link returns within the timeout   *)
(* of the port, so the loops over read_serial keep turning.  The clock     *)
(* goes on.  Nothing is assumed of the device (DeviceToggle), of a         *)
(* spurious wake-up (mon_spurious), or of the console: the read of stdin   *)
(* (term_read) waits for the user, and the device-to-console thread is     *)
(* detached and may be starved.                                            *)
(***************************************************************************)
MainStep ==
    \/ ExecStart \/ wait_for_serial \/ open_serial
    \/ Classify \/ handle_reconnect_poll \/ Final
    \/ timeout_notify \/ timeout_load
    \/ wait_for_binary_request \/ hs_read \/ hs_check
    \/ load_binary \/ send_size \/ read_serial_exact \/ send_size_check
    \/ send_binary \/ send_chunk \/ send_finish
    \/ terminal \/ term_check \/ term_result \/ term_write

MonStep == mon_wait \/ mon_timeout \/ mon_store

FairSpec ==
    /\ Init /\ [][Next]_vars
    /\ WF_vars(MainStep)
    /\ WF_vars(MonStep)
    /\ WF_vars(Tick)

(***************************************************************************)
(* The size frame and the transfer for image lengths up to and beyond      *)
(* 2^32 (SizeSpec).  The run is at send_size with a handle, the handshake  *)
(* done and the image loaded (mini_push.rs 119-122); the length is a u64   *)
(* in limbs.  Only the path on which every write and read of the file      *)
(* succeeds is followed; the failures are those of send_size, send_chunk.  *)
(***************************************************************************)
MaxHigh == 1             \* image lengths go up to (MaxHigh + 1) * 2^32 - 1
MaxTail == 2             \* full chunks of the transfer that are stepped one by one

U64Samples ==
    {<<l0, l1, h>> : l0 \in {0, 1, 255, 256, 511, 512, 513, Limb - 1},
                     l1 \in {0, 1, 255, 256, Limb - 1},
                     h \in 0..MaxHigh}

U64Less(a, b) ==
    \/ a[3] < b[3]
    \/ a[3] = b[3] /\ a[2] < b[2]
    \/ a[3] = b[3] /\ a[2] = b[2] /\ a[1] < b[1]

\* a + n for n below one limb (pb.add, mini_push.rs 81).
U64Add(a, n) ==
    LET l0 == a[1] + n
        l1 == a[2] + (l0 \div Limb)
    IN  <<l0 % Limb, l1 % Limb, a[3] + (l1 \div Limb)>>

\* a - b for b <= a.
U64Sub(a, b) ==
    LET d0 == a[1] - b[1]
        b0 == IF d0 < 0 THEN 1 ELSE 0
        d1 == a[2] - b[2] - b0
        b1 == IF d1 < 0 THEN 1 ELSE 0
    IN  <<d0 + b0 * Limb, d1 + b1 * Limb, a[3] - b[3] - b1>>

\* What is left of the file, as far as take(512) can tell: the number itself
\* below one limb, one limb (more than a chunk) from there on.
Left(v) == IF v[2] = 0 /\ v[3] = 0 THEN v[1] ELSE Limb

sizeRest == <<mode, attempt, result, cause, target_serial, raw, present,
              seenPresent, events, toVars, hsVars, binary_size, fpos, ack,
              progress, sent, termVars, turns>>

SizeInit ==
    /\ mode = "push"
    /\ pc = "size_begin"
    /\ attempt = 1
    /\ result = "none"
    /\ cause = "none"
    /\ target_serial = 1
    /\ raw = FALSE
    /\ present \in BOOLEAN
    /\ seenPresent = TRUE
    /\ events = <<"hs">>
    /\ flag = TRUE
    /\ mon = "idle"
    /\ elapsed = FALSE
    /\ f_ret = "match"
    /\ inTime = TRUE
    /\ count = 0
    /\ received = <<>>
    /\ hs_stream = <<>>
    /\ hs_pos = 0
    /\ binary_size = 0
    /\ fpos = 0
    /\ frame = <<>>
    /\ ack = <<>>
    /\ progress = 0
    /\ sent = <<>>
    /\ has_error = 0
    /\ rd_pc = "none"
    /\ console_buf = ZeroBuf
    /\ sawInterrupt = FALSE
    /\ orphans = 0
    /\ turns = 0
    /\ size64 \in U64Samples
    /\ progress64 = <<0, 0, 0>>

\* mini_push.rs 61: write_all of (binary_size as u32).to_le_bytes().
size_frame ==
    /\ pc = "size_begin"
    /\ frame' = to_le_bytes(as_u32(size64))
    /\ pc' = "size_sent"
    /\ UNCHANGED <<size64, progress64>>
    /\ UNCHANGED sizeRest

\* mini_push.rs 75-82: progress = 0, then the turns of the loop during which
\* at least 512 bytes of the file are left: each reads 512 bytes, writes them
\* and adds 512 to progress.  They are taken in one step, up to a point at
\* most MaxTail full chunks before the end of the file.
size_full_chunks ==
    /\ pc = "size_sent"
    /\ \E j \in 0..MaxTail :
         LET tail == <<(size64[1] % ChunkSize) + ChunkSize * j, 0, 0>>
         IN  /\ ~U64Less(size64, tail)
             /\ progress64' = U64Sub(size64, tail)
    /\ pc' = "size_loop"
    /\ UNCHANGED <<size64, frame>>
    /\ UNCHANGED sizeRest

\* mini_push.rs 77-82, one turn of the loop.
size_chunk ==
    /\ pc = "size_loop"
    /\ U64Less(progress64, size64)
    /\ progress64' = U64Add(progress64, ChunkLen(Left(U64Sub(size64, progress64))))
    /\ UNCHANGED <<pc, size64, frame>>
    /\ UNCHANGED sizeRest

\* mini_push.rs 77 and 83-85: the loop ends.
size_finish ==
    /\ pc = "size_loop"
    /\ ~U64Less(progress64, size64)
    /\ pc' = "size_done"
    /\ UNCHANGED <<size64, progress64, frame>>
    /\ UNCHANGED sizeRest

SizeNext == size_frame \/ size_full_chunks \/ size_chunk \/ size_finish

SizeSpec == SizeInit /\ [][SizeNext]_vars

(***************************************************************************)
(* Properties.                                                             *)
(***************************************************************************)
ClaimRetryable == {"ConnectionError", "ProtocolError", "TimeoutError"}
StoppedPcs == {"final", "done"}

C1_Inv ==
    /\ pc = "rc_poll" => result \in ClaimRetryable
    /\ (pc = "exec" /\ attempt > 0) => result \in ClaimRetryable
    /\ pc \in StoppedPcs => result \in ({"Ok"} \cup ErrorKinds) \ ClaimRetryable
    /\ sent # <<>> => sent[1][1] = 0

C1_Step ==
    /\ (pc = "classify" /\ pc' # pc) =>
          IF result \in ClaimRetryable
            THEN pc' = (IF mode = "push" THEN "rc_poll" ELSE "exec")
            ELSE pc' = "final"
    /\ (pc = "rc_poll" /\ pc' # pc) => pc' = "exec"
    /\ (pc = "exec" /\ pc' # pc) =>
          /\ pc' = "wfs"
          /\ attempt' = attempt + 1
          /\ result' = "none"
          /\ events' = <<>>
          /\ progress' = 0
          /\ sent' = <<>>
    /\ pc \in StoppedPcs => (pc' \in StoppedPcs /\ attempt' = attempt)

\* C1: an exec that returns ConnectionError, ProtocolError or TimeoutError
\* is followed by the reconnect flow and then by a new exec from its start
\* (wait for the device and open; nothing of the previous attempt is kept,
\* the first chunk of every attempt starts at offset 0); an exec that
\* returns Ok or any other error stops the loop and no exec follows.
C1_RunLoop == [](C1_Inv) /\ [][C1_Step]_vars

\* A second exec, after a retryable error, is pushing the image again.
C1_Witness ==
    /\ mode = "push"
    /\ attempt = 2
    /\ pc = "sb_loop"
    /\ progress > 0

Before(e1, e2) ==
    \A i \in 1..Len(events) :
        events[i] = e2 => \E j \in 1..(i - 1) : events[j] = e1

\* C2: in loader mode, within one attempt, a chunk is written only after
\* the three markers were seen, the size frame was written and the bytes
\* "OK" were received, all in that attempt, and the bridge is entered only
\* after the transfer reported completion.
C2_StepOrder ==
    mode = "push" =>
        /\ Before("hs", "size")
        /\ Before("size", "ack")
        /\ Before("hs", "chunk")
        /\ Before("size", "chunk")
        /\ Before("ack", "chunk")
        /\ Before("done", "bridge")
        /\ (sent # <<>> => \E i \in 1..Len(events) : events[i] = "chunk")

\* The bridge of a second attempt, entered after a full transfer.
C2_Witness ==
    /\ mode = "push"
    /\ attempt = 2
    /\ events = <<"hs", "size", "ack", "chunk", "done", "bridge">>

\* Number of marker bytes at the end of s.
RECURSIVE TrailingRun(_)
TrailingRun(s) ==
    IF s = <<>> \/ s[Len(s)] # MarkerByte
      THEN 0
      ELSE 1 + TrailingRun(SubSeq(s, 1, Len(s) - 1))

\* Three consecutive marker bytes end at or before position n of s.
HasTriple(s, n) ==
    \E i \in MarkerRun..n :
        \A k \in 0..(MarkerRun - 1) : s[i - k] = MarkerByte

\* C3: whatever the device sends and however it is split over the reads,
\* the run-counter is the number of 0x03 bytes at the end of what has been
\* scanned (so it grows by one on 0x03, is 0 after any other byte and is
\* kept between reads); the closure returns at count 3 exactly at the first
\* three consecutive 0x03 bytes of the stream, and the handshake is Ok only
\* if it returned that way.
C3_Handshake ==
    /\ pc \in {"hs_read", "hs_check"} =>
          /\ count = TrailingRun(SubSeq(hs_stream, 1, hs_pos))
          /\ count < MarkerRun
          /\ ~HasTriple(hs_stream, hs_pos)
          /\ hs_pos = Len(hs_stream) - (IF pc = "hs_check" THEN Len(received) ELSE 0)
    /\ (pc \in {"to_notify", "to_load"} /\ f_ret = "match") =>
          /\ count = MarkerRun
          /\ HasTriple(hs_stream, hs_pos)
          /\ ~HasTriple(hs_stream, hs_pos - 1)
    /\ (pc \in {"to_notify", "to_load"} /\ f_ret = "flagdown") =>
          /\ count < MarkerRun
          /\ ~HasTriple(hs_stream, hs_pos)
    /\ pc = "load_binary" => f_ret = "match"

\* The three markers came after another byte and in more than one read.
C3_Witness ==
    /\ pc = "to_notify"
    /\ f_ret = "match"
    /\ Len(received) < MarkerRun
    /\ \E i \in 1..Len(hs_stream) : hs_stream[i] # MarkerByte

\* C4: if the wrapped operation returns Ok before the window has elapsed,
\* timeout returns Ok, never TimeoutError.
C4_OkInTime ==
    ~(result = "TimeoutError" /\ f_ret \in {"match", "flagdown"} /\ inTime)

\* C5: once a console read contains 0x03 the bridge returns Ok to the
\* Supervisor.
C5_InterruptOk ==
    (pc = "classify" /\ cause \in {"flag", "link_write", "stdin_read"} /\ sawInterrupt)
        => result = "Ok"

\* C6: after a retryable error the Supervisor holds no link handle while it
\* waits for the device and when it opens it again.
C6_NoHandleHeld ==
    pc \in {"rc_poll", "exec", "wfs", "open"} => target_serial = None

\* C7: a failed write of a chunk is classified as ConnectionError.
C7_WriteFailure ==
    cause = "chunk_write" => result = "ConnectionError"

\* C8: send_size returns Ok only if the two bytes read are 'O','K'; with any
\* other two bytes, and when the read fails with 0 or 1 bytes received, it
\* returns ProtocolError.
C8_AckCheck ==
    /\ pc = "sb_begin" => ack = <<ByteO, ByteK>>
    /\ (pc = "classify" /\ cause = "ack_read") =>
          (result = "ProtocolError" /\ Len(ack) < AckLen)
    /\ (pc = "classify" /\ cause = "ack_mismatch") =>
          (result = "ProtocolError" /\ Len(ack) = AckLen /\ ack # <<ByteO, ByteK>>)
    /\ (pc \in {"sb_begin", "classify"} /\ Len(ack) = AckLen /\ ack # <<ByteO, ByteK>>) =>
          result = "ProtocolError"

\* The read failed after one byte had been received.
C8_Witness ==
    /\ pc = "classify"
    /\ cause = "ack_read"
    /\ Len(ack) = 1

RECURSIVE SumLen(_)
SumLen(cs) == IF cs = <<>> THEN 0 ELSE cs[1][2] + SumLen(Tail(cs))

CeilDiv(a, b) == (a + b - 1) \div b

\* The chunks written so far are consecutive pieces of the image from
\* offset 0 on, and progress is their total length.
ChunksInOrder ==
    /\ \A i \in 1..Len(sent) :
          sent[i][1] = (IF i = 1 THEN 0 ELSE sent[i - 1][1] + sent[i - 1][2])
    /\ progress = SumLen(sent)

C9_Inv ==
    /\ pc = "sb_loop" =>
          /\ ChunksInOrder
          /\ \A i \in 1..Len(sent) : i < Len(sent) => sent[i][2] = ChunkSize
          /\ progress <= binary_size
          /\ \A i \in 1..Len(events) : events[i] # "done"
    /\ (pc = "term_begin" /\ mode = "push") =>
          /\ ChunksInOrder
          /\ Len(sent) = CeilDiv(binary_size, ChunkSize)
          /\ \A i \in 1..Len(sent) : i < Len(sent) => sent[i][2] = ChunkSize
          /\ sent # <<>> =>
                sent[Len(sent)][2] = (IF binary_size % ChunkSize = 0
                                        THEN ChunkSize ELSE binary_size % ChunkSize)
          /\ SumLen(sent) = binary_size
          /\ progress = binary_size

C9_Step == (pc = "sb_loop" /\ pc' \in {"sb_loop", "term_begin"}) => progress' >= progress

\* C9: for every image length S, when completion is reported ceil(S/512)
\* chunks have been written, in source order, all of length 512 except the
\* last, which has length S mod 512 (512 if S is a positive multiple of
\* 512); their lengths sum to S; progress never decreases and is S exactly
\* when completion is reported.
C9_Chunks == [](C9_Inv) /\ [][C9_Step]_vars

\* Completion of an image of two full chunks and a shorter last one.
C9_Witness ==
    /\ pc = "term_begin"
    /\ mode = "push"
    /\ Len(sent) = 3
    /\ sent[3][2] < ChunkSize

AfterOpenPcs ==
    {"open", "hs_begin", "hs_read", "hs_check", "to_notify", "to_load",
     "load_binary", "ss_begin", "ss_read", "ss_check", "sb_begin", "sb_loop",
     "term_begin", "t_check", "t_read", "t_write", "t_result"}

C10_Step ==
    (pc \in {"wfs", "rc_poll"} /\ ~present) => pc' = pc

\* C10: after a retryable error, in both modes, the device is opened and
\* the handshake is read only after serial_connected has returned true
\* since that error; while the device is absent the Supervisor only polls.
C10_Reconnect == [](pc \in AfterOpenPcs => seenPresent) /\ [][C10_Step]_vars

\* The terminal-only tool is about to open the device again after an error.
C10_Witness ==
    /\ mode = "term"
    /\ attempt = 2
    /\ pc = "open"
    /\ seenPresent

(***************************************************************************)
(* C11.  Handshake timeout scenario: when the closure of                   *)
(* wait_for_binary_request ends because the flag went down, with no three  *)
(* consecutive 0x03 and no read error, wait_for_binary_request fails with  *)
(* TimeoutError, run resets the connection and enters the reconnect flow   *)
(* of mini_push (never the final stop), and from there the only way on is  *)
(* the next exec: wait_for_serial and open_serial again.  Under FairSpec   *)
(* a handshake that is running always ends, and a handshake that timed     *)
(* out leads to the next open_serial unless the device was removed.        *)
(***************************************************************************)
HsPcs == {"hs_read", "hs_check", "to_notify", "to_load"}

C11_Inv ==
    /\ (f_ret = "flagdown" /\ pc = "to_load") => ~flag
    /\ (f_ret = "flagdown" /\ pc = "classify") =>
          result = "TimeoutError" /\ cause = "timeout"
    /\ (f_ret = "flagdown" /\ pc \notin HsPcs) =>
          pc \in {"classify", "rc_poll", "exec"}

C11_Step ==
    /\ (pc = "to_load" /\ f_ret = "flagdown" /\ pc' # pc) =>
          pc' = "classify" /\ result' = "TimeoutError"
    /\ (pc = "classify" /\ result = "TimeoutError" /\ pc' # pc) =>
          pc' = "rc_poll" /\ ~raw'
    /\ (pc = "rc_poll" /\ result = "TimeoutError" /\ pc' # pc) =>
          pc' = "exec" /\ present
    /\ (pc = "exec" /\ pc' # pc) => pc' = "wfs" /\ attempt' = attempt + 1
    /\ (pc = "wfs" /\ pc' # pc) => pc' = "open"

C11_HandshakeTimeout ==
    /\ [](C11_Inv)
    /\ [][C11_Step]_vars
    /\ (pc \in HsPcs) ~> (pc \notin HsPcs)
    /\ (pc = "classify" /\ result = "TimeoutError" /\ attempt < MaxAttempts)
          ~> (pc = "open" \/ ~present)

\* The window elapsed with the device connected and silent or short of three
\* markers, and run is in the reconnect flow with TimeoutError.
C11_Witness ==
    /\ pc = "rc_poll"
    /\ result = "TimeoutError"
    /\ f_ret = "flagdown"
    /\ ~inTime
    /\ present
    /\ ~raw


(***************************************************************************)
(* C12.  As claimed: when the closure had not returned by the time the     *)
(* window elapsed, timeout returns TimeoutError, whether the closure then  *)
(* returns Ok or an error.                                                 *)
(***************************************************************************)
C12_Original ==
    /\ (pc = "load_binary" /\ f_ret = "match") => inTime
    /\ (pc = "classify" /\ cause \in {"timeout", "hs_read"} /\ ~inTime) =>
          result = "TimeoutError"

(***************************************************************************)
(* C12.  As the code has it: an error of the closure is the result of      *)
(* timeout, whether the window has elapsed or not; when the closure        *)
(* returns Ok the result is decided by the flag at the load of lib.rs      *)
(* 196: TimeoutError if the monitor has stored false by then (it has,      *)
(* when the closure ended because it saw the flag down, or when the        *)
(* monitor is done), Ok otherwise, also after the window has elapsed.      *)
(***************************************************************************)
C12_Inv ==
    /\ (pc = "classify" /\ cause = "hs_read") =>
          result = "ConnectionError" /\ f_ret = "err"
    /\ (pc = "classify" /\ cause = "timeout") =>
          result = "TimeoutError" /\ f_ret \in {"match", "flagdown"}
    /\ pc = "load_binary" => f_ret = "match"
    /\ (pc = "to_load" /\ mon = "done") => ~flag

C12_Step ==
    (pc = "to_load" /\ pc' # pc) =>
       IF flag THEN pc' = "load_binary" /\ result' = result
               ELSE pc' = "classify" /\ result' = "TimeoutError"

C12_Executor == [](C12_Inv) /\ [][C12_Step]_vars

\* The closure returned its own error after the window had elapsed.
C12_Witness ==
    /\ pc = "classify"
    /\ cause = "hs_read"
    /\ result = "ConnectionError"
    /\ ~inTime

(***************************************************************************)
(* C13.  Whenever terminal has returned ConnectionError to exec, the       *)
(* shared flag has_error is 1 (ConnectionFailed) at that moment; with the  *)
(* flag at 0 (Running) or 2 (UserInterrupted) it returns no                *)
(* ConnectionError.                                                        *)
(***************************************************************************)
TermCauses == {"clone", "flag", "stdin_read", "link_write"}

C13_OnlyIfFailed ==
    (pc = "classify" /\ cause \in TermCauses /\ result = "ConnectionError") =>
       has_error = 1

(***************************************************************************)
(* C14.  Raw mode is on only between enable_raw_mode in terminal and the   *)
(* connection_reset that run performs on terminal's result: it is off      *)
(* whenever run is waiting for the device, opening it, running the         *)
(* handshake, the size negotiation or the transfer, about to start the     *)
(* bridge, in the reconnect flow, and whenever the process has ended       *)
(* (after the final reset, or by the exit of open_serial).  Every step     *)
(* that takes run past a result of the bridge leaves raw mode off.         *)
(***************************************************************************)
RawPcs == {"t_check", "t_read", "t_write", "t_result", "classify", "final"}

C14_Inv == raw => pc \in RawPcs

C14_Step ==
    (pc \in {"classify", "final"} /\ pc' # pc /\ pc' # "final") => ~raw'

C14_RawMode == [](C14_Inv) /\ [][C14_Step]_vars

\* The bridge of the first attempt failed, and the open of the second attempt
\* failed: the process has exited with raw mode off.
C14_Witness ==
    /\ mode = "term"
    /\ pc = "exited"
    /\ attempt = 2
    /\ has_error = 1
    /\ ~raw

(***************************************************************************)
(* C15.  The size frame is 4 bytes; the device, decoding them as a         *)
(* little-endian unsigned 32-bit integer, gets the low 32 bits of the      *)
(* image length S: S itself when S < 2^32, S mod 2^32 when S >= 2^32.      *)
(***************************************************************************)
\* The device's side: u32::from_le_bytes, in limbs.
from_le_bytes(b) == <<b[1] + 256 * b[2], b[3] + 256 * b[4]>>

FramedPcs == {"size_sent", "size_loop", "size_done"}

C15_SizeFrame ==
    pc \in FramedPcs =>
       /\ Len(frame) = 4
       /\ \A i \in 1..4 : frame[i] \in 0..255
       /\ from_le_bytes(frame) = <<size64[1], size64[2]>>
       /\ (size64[3] = 0 => from_le_bytes(frame) \o <<0>> = size64)

\* 2^32 + 256 * 2^16 + 512: the frame is that of 256 * 2^16 + 512.
C15_Witness ==
    /\ pc = "size_sent"
    /\ size64 = <<512, 256, 1>>
    /\ frame = <<0, 2, 0, 1>>

(***************************************************************************)
(* C16.  While the bridge runs, once has_error has left 0 (Running) no     *)
(* step of either loop changes it again: the value stays the first one     *)
(* stored, 1 (ConnectionFailed) or 2 (UserInterrupted).                    *)
(***************************************************************************)
BridgePcs == {"t_check", "t_read", "t_write", "t_result"}

C16_WriteOnce ==
    [][(pc \in BridgePcs /\ has_error # 0) => has_error' = has_error]_vars

(***************************************************************************)
(* C17.  Whenever terminal has returned to exec after the bridge started   *)
(* (by the flag, by a failed write to the link or by a failed console      *)
(* read), has_error is not 0 (Running); and at any time at most one        *)
(* device-to-console loop is still looping, the threads of earlier runs    *)
(* included.                                                               *)
(***************************************************************************)
ReturnCauses == {"flag", "stdin_read", "link_write"}

LoopsRunning == orphans + (IF rd_pc \in {"check", "read"} THEN 1 ELSE 0)

C17_LoopLifetime ==
    /\ (pc = "classify" /\ cause \in ReturnCauses) => has_error # 0
    /\ LoopsRunning <= 1

(***************************************************************************)
(* C18.  Once the size frame is written and send_size is reading the       *)
(* reply, send_size eventually leaves read_serial_exact (and returns Ok    *)
(* or an error), whatever the device does, also when it sends nothing or   *)
(* only one byte and every read times out with zero bytes.  Stated for     *)
(* the device that stays connected: the behaviours in which it is removed  *)
(* are left out, so a behaviour that refutes this has the device present   *)
(* all along.                                                              *)
(***************************************************************************)
C18_Terminates == (pc = "ss_read") ~> (pc # "ss_read" \/ ~present)

(***************************************************************************)
(* C19.  As claimed: for every image length S, when the transfer has       *)
(* ended the number of data bytes written equals the number the device     *)
(* decodes from the size frame.                                            *)
(***************************************************************************)
C19_Original ==
    pc = "size_done" => progress64 = from_le_bytes(frame) \o <<0>>

(***************************************************************************)
(* C19.  As the code has it: when the transfer has ended the number of     *)
(* data bytes written is S; it equals the number the device decodes from   *)
(* the size frame for every S < 2^32, and exceeds it by the dropped high   *)
(* part, a multiple of 2^32, for S >= 2^32.                                *)
(***************************************************************************)
C19_Announced ==
    pc = "size_done" =>
       /\ progress64 = size64
       /\ (size64[3] = 0 => progress64 = from_le_bytes(frame) \o <<0>>)
       /\ (size64[3] > 0 => /\ progress64 # from_le_bytes(frame) \o <<0>>
                            /\ progress64 = from_le_bytes(frame) \o <<size64[3]>>)

\* 2^16 + 513 bytes were announced and written.
C19_Witness ==
    /\ pc = "size_done"
    /\ size64 = <<513, 1, 0>>
    /\ progress64 = <<513, 1, 0>>
    /\ from_le_bytes(frame) = <<513, 1>>

(***************************************************************************)
(* C20.  Whenever a protocol step (handshake, size negotiation, chunked    *)
(* transfer) or the bridge is about to start, target_serial holds a        *)
(* handle, the one opened in this attempt; and exec never returns          *)
(* NoneError, in either mode, on the first attempt or after reconnects.    *)
(***************************************************************************)
StepStartPcs == {"hs_begin", "ss_begin", "sb_begin", "term_begin"}

C20_LinkPresent ==
    /\ result # "NoneError"
    /\ cause # "handle"
    /\ pc \in StepStartPcs => target_serial # None /\ target_serial = attempt

\* The bridge is about to start on the handle of the second attempt.
C20_Witness ==
    /\ mode = "term"
    /\ pc = "term_begin"
    /\ attempt = 2
    /\ target_serial = 2

=============================================================================
